---- MODULE Spec2Model ----
(***************************************************************************)
(* Ellipsoidal reachability of a GP dynamics model                         *)
(* (gp_ellipsoidal_reachability/gp_reachability.py).                       *)
(*                                                                         *)
(* onestep_reachability and multistep_reachability are pure functions of   *)
(* their arguments; they are operators here, computed stage by stage in    *)
(* the order of the source, and the specifications apply them to inputs    *)
(* drawn from bounded sets.  Arrays are numpy arrays over the integers: a  *)
(* record [ndim, m] with m the rows of the array (a 1-d array is one row). *)
(***************************************************************************)
EXTENDS Integers, Sequences, FiniteSets, TLC

VARIABLES args, env, res, prev, margs, mres

vars == <<args, env, res, prev, margs, mres>>

(***************************************************************************)
(* Bounds of the model.                                                    *)
(***************************************************************************)
\* entries of p_center and k range over 0..MaxVal
MaxVal == 1
\* entries of the feedback matrix K of a one-step call range over 0..MaxGain
MaxGain == 1
\* c_safety ranges over 1..MaxC
MaxC == 2
\* horizons of multistep_reachability range over 1..MaxHorizon
MaxHorizon == 3

(***************************************************************************)
(* numpy arrays.                                                           *)
(***************************************************************************)
None == [ndim |-> 0, m |-> <<>>, tag |-> "None"]

\* the value of an expression whose evaluation raised
Err == [ndim |-> 0, m |-> <<>>, tag |-> "Err"]

RECURSIVE ToSeq(_, _)
\* the tuple <<f[1], ..., f[n]>>, each entry evaluated once
ToSeq(f, n) == IF n = 0 THEN <<>> ELSE Append(ToSeq(f, n - 1), f[n])

\* the rows of an array as tuples of tuples
Rowwise(rows) == ToSeq([i \in 1..Len(rows) |-> ToSeq(rows[i], Len(rows[i]))], Len(rows))

Arr1(v) == [ndim |-> 1, m |-> <<ToSeq(v, Len(v))>>, tag |-> "array"]

Arr2(rows) == [ndim |-> 2, m |-> Rowwise(rows), tag |-> "array"]

IsArr(a) == a.tag = "array"

Rows(a) == Len(a.m)

Cols(a) == IF Len(a.m) = 0 THEN 0 ELSE Len(a.m[1])

\* np.shape
np_shape(a) == IF a.ndim = 1 THEN <<Cols(a)>> ELSE <<Rows(a), Cols(a)>>

Abs(x) == IF x < 0 THEN -x ELSE x

Max(x, y) == IF x >= y THEN x ELSE y

RECURSIVE SumTo(_, _)
\* sum of f[1..n]
SumTo(f, n) == IF n = 0 THEN 0 ELSE f[n] + SumTo(f, n - 1)

\* np.dot of a 2-d array with a 2-d or a 1-d array
np_dot(a, b) ==
    IF ~IsArr(a) \/ ~IsArr(b) \/ a.ndim # 2 THEN Err
    ELSE IF b.ndim = 2
    THEN IF Cols(a) # Rows(b) THEN Err
         ELSE Arr2([i \in 1..Rows(a) |-> [j \in 1..Cols(b) |->
                  SumTo([l \in 1..Cols(a) |-> a.m[i][l] * b.m[l][j]], Cols(a))]])
    ELSE IF Cols(a) # Cols(b) THEN Err
         ELSE Arr1([i \in 1..Rows(a) |->
                  SumTo([l \in 1..Cols(a) |-> a.m[i][l] * b.m[1][l]], Cols(a))])

\* numpy broadcasting of two arrays of at most two dimensions
Broadcastable(a, b) ==
    /\ IsArr(a) /\ IsArr(b)
    /\ (Rows(a) = Rows(b) \/ Rows(a) = 1 \/ Rows(b) = 1)
    /\ (Cols(a) = Cols(b) \/ Cols(a) = 1 \/ Cols(b) = 1)

BIdx(i, n) == IF n = 1 THEN 1 ELSE i

\* elementwise a + s*b with numpy broadcasting (s = 1: a + b, s = -1: a - b)
np_axpy(a, s, b) ==
    IF ~Broadcastable(a, b) THEN Err
    ELSE LET r == Max(Rows(a), Rows(b))
             c == Max(Cols(a), Cols(b))
             rows == [i \in 1..r |-> [j \in 1..c |->
                        a.m[BIdx(i, Rows(a))][BIdx(j, Cols(a))]
                        + s * b.m[BIdx(i, Rows(b))][BIdx(j, Cols(b))]]]
         IN  IF a.ndim = 1 /\ b.ndim = 1 THEN Arr1(rows[1]) ELSE Arr2(rows)

np_add(a, b) == np_axpy(a, 1, b)

np_sub(a, b) == np_axpy(a, -1, b)

\* np.vstack of two arrays (each made at least 2-d first)
np_vstack(a, b) ==
    IF ~IsArr(a) \/ ~IsArr(b) \/ Cols(a) # Cols(b) THEN Err
    ELSE Arr2(a.m \o b.m)

\* a.T
np_T(a) ==
    IF ~IsArr(a) THEN Err
    ELSE IF a.ndim = 1 THEN a
    ELSE Arr2([j \in 1..Cols(a) |-> [i \in 1..Rows(a) |-> a.m[i][j]]])

\* a[0,:] of a 2-d array
np_row0(a) == IF ~IsArr(a) \/ a.ndim # 2 \/ Rows(a) = 0 THEN Err ELSE Arr1(a.m[1])

\* a.squeeze() of a 1 x n array, n > 1
np_squeeze(a) == IF ~IsArr(a) THEN Err ELSE IF Rows(a) = 1 THEN Arr1(a.m[1]) ELSE a

\* np.diag of a 1-d array: the diagonal matrix
np_diag(v) ==
    IF ~IsArr(v) \/ v.ndim # 1 THEN Err
    ELSE Arr2([i \in 1..Cols(v) |-> [j \in 1..Cols(v) |->
             IF i = j THEN v.m[1][i] ELSE 0]])

\* np.zeros((n, 1))
np_zeros(n) == Arr2([i \in 1..n |-> <<0>>])

\* scalar * array
np_scale(s, a) ==
    IF ~IsArr(a) THEN Err
    ELSE [a EXCEPT !.m = Rowwise([i \in 1..Rows(a) |-> [j \in 1..Cols(a) |-> s * a.m[i][j]]])]

\* the integer square root; exact on the squares the predictive variances are
ISqrt(x) == IF x < 0 THEN 0 ELSE CHOOSE r \in 0..x : r * r <= x /\ (r + 1) * (r + 1) > x

\* numpy.sqrt, elementwise
np_sqrt(a) ==
    IF ~IsArr(a) THEN Err
    ELSE [a EXCEPT !.m = Rowwise([i \in 1..Rows(a) |-> [j \in 1..Cols(a) |-> ISqrt(a.m[i][j])]])]

\* a ** 2, elementwise
np_square(a) ==
    IF ~IsArr(a) THEN Err
    ELSE [a EXCEPT !.m = Rowwise([i \in 1..Rows(a) |-> [j \in 1..Cols(a) |-> a.m[i][j] * a.m[i][j]]])]

\* a[:, lo:] restricted to the columns lo+1..hi (python a[:, lo:hi])
np_cols(a, lo, hi) ==
    IF ~IsArr(a) THEN Err
    ELSE LET h == IF hi > Cols(a) THEN Cols(a) ELSE hi
             l == IF lo > h THEN h ELSE lo
         IN  Arr2([i \in 1..Rows(a) |-> [j \in 1..(h - l) |-> a.m[i][l + j]]])

np_trace(a) == SumTo([i \in 1..Rows(a) |-> a.m[i][i]], Rows(a))

(***************************************************************************)
(* The predictive model (SimpleGPModel), used through predict and          *)
(* predictive_gradients only.  A model is [W, b, s, V]: the predictive     *)
(* mean at z is b + W z, the predictive standard deviation s + V |z| and   *)
(* the predictive variance its square; the Jacobian of the mean is W.      *)
(***************************************************************************)
\* constant mean and variance at every query
GP_const ==
    [W |-> << <<0, 0, 0>>, <<0, 0, 0>> >>, b |-> <<1, -1>>,
     s |-> <<1, 1>>, V |-> << <<0, 0, 0>>, <<0, 0, 0>> >>]

\* mean and variance depend on the state and on the action
GP_act ==
    [W |-> << <<1, 0, 1>>, <<0, 1, 2>> >>, b |-> <<0, 1>>,
     s |-> <<1, 2>>, V |-> << <<0, 0, 1>>, <<0, 1, 1>> >>]

GPs == {GP_const, GP_act}

\* state dimension and input dimension of a model
gp_n_s(gp) == Len(gp.b)

gp_n_in(gp) == Len(gp.W[1])

gp_accepts(gp, zT) == IsArr(zT) /\ zT.ndim = 2 /\ Rows(zT) = 1 /\ Cols(zT) = gp_n_in(gp)

\* gp.predict(zT): <<mean, variance>>, each 1 x n_s; a query of another shape raises
gp_predict(gp, zT) ==
    IF ~gp_accepts(gp, zT) THEN <<Err, Err>>
    ELSE LET z == zT.m[1]
             D == gp_n_in(gp)
             mean == [i \in 1..gp_n_s(gp) |->
                        gp.b[i] + SumTo([j \in 1..D |-> gp.W[i][j] * z[j]], D)]
             sd == [i \in 1..gp_n_s(gp) |->
                        gp.s[i] + SumTo([j \in 1..D |-> gp.V[i][j] * Abs(z[j])], D)]
         IN  <<Arr2(<<mean>>), Arr2(<<[i \in 1..gp_n_s(gp) |-> sd[i] * sd[i]]>>)>>

\* gp.predictive_gradients(zT)[0]: the n_s x (n_s + n_u) Jacobian of the mean
gp_predictive_gradients(gp, zT) ==
    IF ~gp_accepts(gp, zT) THEN Err ELSE Arr2(gp.W)

(***************************************************************************)
(* utils / utils_ellipsoid: the ellipsoid algebra.                         *)
(***************************************************************************)
\* the texts of the print_ellipsoid calls of onestep_reachability
PrintTexts ==
    {"initial uncertainty ellipsoid", "uncertainty first state",
     "predictive distribution", "linear transformation uncertainty",
     "overapproximation lagrangian sigma", "overapproximation lagrangian mu",
     "accumulated uncertainty current step", "sum old and new uncertainty"}

\* print_ellipsoid(p, q, text) returns normally unless the environment makes
\* the formatting of this text fail
print_ellipsoid(text) == env.failText # text

IsSquare(q) == IsArr(q) /\ q.ndim = 2 /\ Rows(q) = Cols(q)

\* the extent of the ellipsoid q under the control law: trace(q) + trace(K q K^T)
box_extent(q, K) == np_trace(q) + np_trace(np_dot(K, np_dot(q, np_T(K))))

\* compute_bounding_box_lagrangian(p_center, q_shape, L, K, k, order, verbose):
\* <<lb, ub>>, the box -L_i*e^order .. L_i*e^order with e the extent of the
\* input ellipsoid under the control law; malformed shapes raise
compute_bounding_box_lagrangian(p_center, q_shape, L, K, k, order) ==
    IF \/ ~IsSquare(q_shape) \/ ~IsArr(L) \/ ~IsArr(K)
       \/ L.ndim # 1 \/ Cols(L) # Rows(q_shape) \/ Cols(K) # Rows(q_shape)
    THEN <<Err, Err>>
    ELSE LET e == box_extent(q_shape, K)
             w == IF order = 2 THEN e * e ELSE e
         IN  <<np_scale(-w, L), np_scale(w, L)>>

\* ellipsoid_from_box(lb, ub, diag_only = True): the diagonal shape
\* n * max(|lb_i|, |ub_i|)^2 of a zero-centered ellipsoid containing the box
ellipsoid_from_box(lb, ub) ==
    IF ~IsArr(lb) \/ ~IsArr(ub) \/ lb.ndim # 1 \/ ub.ndim # 1 \/ Cols(lb) # Cols(ub)
    THEN Err
    ELSE LET n == Cols(lb)
         IN  np_diag(Arr1([i \in 1..n |->
                 n * Max(Abs(lb.m[1][i]), Abs(ub.m[1][i]))
                   * Max(Abs(lb.m[1][i]), Abs(ub.m[1][i]))]))

SameShape(a, b) == IsArr(a) /\ IsArr(b) /\ np_shape(a) = np_shape(b)

\* sum_ellipsoids(p1, Q1, p2, Q2): <<p1 + p2, (1 + 1/c) Q1 + (1 + c) Q2>> with the
\* fixed balancing scalar c = 1; malformed shapes raise
sum_ellipsoids(p1, Q1, p2, Q2) ==
    IF ~SameShape(p1, p2) \/ ~SameShape(Q1, Q2) \/ ~IsSquare(Q1) \/ Rows(p1) # Rows(Q1)
    THEN <<Err, Err>>
    ELSE <<np_add(p1, p2), np_add(np_scale(2, Q1), np_scale(2, Q2))>>

(***************************************************************************)
(* Running a call: its stages in program order.  A stage is a diagnostic   *)
(* print, a model query, or a step of array arithmetic that either yields  *)
(* its value or raises; the first stage that raises ends the call.         *)
(***************************************************************************)
\* print(...) guarded by `on`
Ev_print(text, on) == [kind |-> "print", text |-> text, on |-> on, q |-> None]

\* print_ellipsoid(..., text = text) guarded by `on`
Ev_print_ellipsoid(text, on) == [kind |-> "print_ellipsoid", text |-> text, on |-> on, q |-> None]

\* gp.predict(q) / gp.predictive_gradients(q)
Ev_query(kind, q) == [kind |-> kind, text |-> "", on |-> TRUE, q |-> q]

\* an array computation: raises when its value is Err
Ev_compute(what, value) == [kind |-> "compute", text |-> what, on |-> IsArr(value), q |-> None]

EmptyLog == [prints |-> <<>>, predict |-> <<>>, gradients |-> <<>>]

Raised(error, at, log) ==
    [status |-> "raised", error |-> error, at |-> at, p |-> None, Q |-> None, log |-> log]

Returned(p, Q, log) ==
    [status |-> "returned", error |-> "", at |-> "", p |-> p, Q |-> Q, log |-> log]

RECURSIVE Exec(_, _, _, _, _)
\* the outcome of the stages evs[i..], then `return p, Q`
Exec(evs, i, log, p, Q) ==
    IF i > Len(evs) THEN Returned(p, Q, log)
    ELSE LET e == evs[i] IN
         CASE e.kind = "print" ->
                Exec(evs, i + 1,
                     IF e.on THEN [log EXCEPT !.prints = Append(@, e.text)] ELSE log, p, Q)
           [] e.kind = "print_ellipsoid" ->
                IF ~e.on THEN Exec(evs, i + 1, log, p, Q)
                ELSE IF ~print_ellipsoid(e.text) THEN Raised("PrintError", e.text, log)
                ELSE Exec(evs, i + 1, [log EXCEPT !.prints = Append(@, e.text)], p, Q)
           [] e.kind = "predict" ->
                Exec(evs, i + 1, [log EXCEPT !.predict = Append(@, e.q)], p, Q)
           [] e.kind = "predictive_gradients" ->
                Exec(evs, i + 1, [log EXCEPT !.gradients = Append(@, e.q)], p, Q)
           [] OTHER ->
                IF e.on THEN Exec(evs, i + 1, log, p, Q)
                ELSE Raised("ValueError", e.text, log)

(***************************************************************************)
(* onestep_reachability.                                                   *)
(***************************************************************************)
\* point_action with the offset k forgotten
point_action_no_offset(K, p_center, k) == np_dot(K, p_center)

\* the action applied at the center of a point: u_p = np.dot(K, p_center) + k
point_action(K, p_center, k) == np_add(np_dot(K, p_center), k)

\* the shape of the point case: q_1 = np.diag(q_new_unscaled.squeeze() * c_safety)
point_shape(q_new_unscaled, c_safety) == np_diag(np_scale(c_safety, np_squeeze(q_new_unscaled)))

\* the stages of the point case and what it returns
onestep_point(p_center, gp, K, k, c_safety, verbose) ==
    LET u_p == point_action(K, p_center, k)
        z_bar == np_vstack(p_center, u_p)
        pred == gp_predict(gp, np_T(z_bar))
        p_new == pred[1]
        q_new_unscaled == pred[2]
        q_1 == point_shape(q_new_unscaled, c_safety)
        p_1 == np_add(p_center, np_T(p_new))
        evs == << Ev_compute("u_p", u_p),
                  Ev_print("Applying action", verbose > 0),
                  Ev_compute("z_bar", z_bar),
                  Ev_query("predict", np_T(z_bar)),
                  Ev_compute("predict", p_new),
                  Ev_compute("q_1", q_1),
                  Ev_compute("p_1", p_1),
                  Ev_print_ellipsoid("uncertainty first state", verbose > 0) >>
    IN  [out |-> Exec(evs, 1, EmptyLog, p_1, q_1),
         aux |-> [sigm |-> q_new_unscaled, mu |-> p_new, u |-> u_p,
                  H |-> None, p_0 |-> None, Q_0 |-> None, Q_sigm |-> None, Q_mu |-> None]]

\* linearization_action taken as the closed-loop action at the center
linearization_action_closed_loop(K, p_center, k) == point_action(K, p_center, k)

\* the linearization action of the set case: u_bar = k
linearization_action(K, p_center, k) == k

\* lagrange_sigm_shape with the semi-axes divided by c_safety
lagrange_sigm_shape_divided(c_safety, ub_sigm, sigm_0) ==
    LET x == np_square(np_add(ub_sigm, np_sqrt(np_row0(sigm_0))))
    IN  IF ~IsArr(x) THEN Err
        ELSE np_diag(Arr1([i \in 1..Cols(x) |-> x.m[1][i] \div c_safety]))

\* Q_lagrange_sigm = diag(c_safety*(ub_sigm+sqrt(sigm_0[0,:]))**2)
lagrange_sigm_shape(c_safety, ub_sigm, sigm_0) ==
    np_diag(np_scale(c_safety, np_square(np_add(ub_sigm, np_sqrt(np_row0(sigm_0))))))

\* the stages of the set case and what it returns
onestep_set(p_center, gp, K, k, L_mu, L_sigm, q_shape, c_safety, verbose) ==
    LET n_s == np_shape(K)[2]
        x_bar == p_center
        u_bar == linearization_action(K, p_center, k)
        z_bar == np_vstack(x_bar, u_bar)
        pred == gp_predict(gp, np_T(z_bar))
        mu_0 == pred[1]
        sigm_0 == pred[2]
        Jac_mu == gp_predictive_gradients(gp, np_T(z_bar))
        A_mu == np_cols(Jac_mu, 0, n_s)
        B_mu == np_cols(Jac_mu, n_s, Cols(Jac_mu))
        H == np_add(A_mu, np_dot(B_mu, K))
        p_0 == np_add(np_T(mu_0), np_dot(B_mu, np_sub(k, u_bar)))
        Q_0 == np_dot(H, np_dot(q_shape, np_T(H)))
        box_mean == compute_bounding_box_lagrangian(p_center, q_shape, L_mu, K, k, 2)
        box_sigm == compute_bounding_box_lagrangian(p_center, q_shape, L_sigm, K, k, 1)
        Q_lagrange_sigm == lagrange_sigm_shape(c_safety, box_sigm[2], sigm_0)
        p_lagrange_sigm == np_zeros(n_s)
        Q_lagrange_mu == ellipsoid_from_box(box_mean[1], box_mean[2])
        p_lagrange_mu == np_zeros(n_s)
        sum_lagrange == sum_ellipsoids(p_lagrange_sigm, Q_lagrange_sigm,
                                       p_lagrange_mu, Q_lagrange_mu)
        new == sum_ellipsoids(sum_lagrange[1], sum_lagrange[2], p_0, Q_0)
        one == sum_ellipsoids(new[1], new[2], p_center, q_shape)
        evs == << Ev_print_ellipsoid("initial uncertainty ellipsoid", verbose > 0),
                  Ev_compute("z_bar", z_bar),
                  Ev_print("Applying action", verbose > 0),
                  Ev_query("predict", np_T(z_bar)),
                  Ev_compute("predict", mu_0),
                  Ev_print_ellipsoid("predictive distribution", verbose > 0),
                  Ev_query("predictive_gradients", np_T(z_bar)),
                  Ev_compute("predictive_gradients", Jac_mu),
                  Ev_compute("H", H),
                  Ev_compute("p_0", p_0),
                  Ev_compute("Q_0", Q_0),
                  Ev_print_ellipsoid("linear transformation uncertainty", verbose > 0),
                  Ev_compute("compute_bounding_box_lagrangian L_mu", box_mean[2]),
                  Ev_compute("compute_bounding_box_lagrangian L_sigm", box_sigm[2]),
                  Ev_compute("Q_lagrange_sigm", Q_lagrange_sigm),
                  Ev_print_ellipsoid("overapproximation lagrangian sigma", verbose > 0),
                  Ev_compute("ellipsoid_from_box", Q_lagrange_mu),
                  Ev_print_ellipsoid("overapproximation lagrangian mu", verbose > 0),
                  Ev_compute("sum_ellipsoids lagrange", sum_lagrange[2]),
                  Ev_compute("sum_ellipsoids new", new[2]),
                  Ev_print_ellipsoid("accumulated uncertainty current step", TRUE),
                  Ev_compute("sum_ellipsoids old and new", one[2]),
                  Ev_print_ellipsoid("sum old and new uncertainty", TRUE) >>
    IN  [out |-> Exec(evs, 1, EmptyLog, one[1], one[2]),
         aux |-> [sigm |-> sigm_0, mu |-> mu_0, u |-> u_bar,
                  H |-> H, p_0 |-> p_0, Q_0 |-> Q_0,
                  Q_sigm |-> Q_lagrange_sigm, Q_mu |-> Q_lagrange_mu]]

\* onestep_reachability(p_center, gp, K, k, L_mu, L_sigm, q_shape, c_safety, verbose)
onestep_reachability(p_center, gp, K, k, L_mu, L_sigm, q_shape, c_safety, verbose) ==
    IF q_shape = None
    THEN onestep_point(p_center, gp, K, k, c_safety, verbose)
    ELSE onestep_set(p_center, gp, K, k, L_mu, L_sigm, q_shape, c_safety, verbose)

(***************************************************************************)
(* multistep_reachability.                                                 *)
(***************************************************************************)
\* v[:, None] of a 1-d array: the column
np_column(v) ==
    IF ~IsArr(v) \/ v.ndim # 1 THEN Err ELSE Arr2([i \in 1..Cols(v) |-> <<v.m[1][i]>>])

\* the shape argument the driver hands to its first one-step call
first_step_shape(q_0) == None

\* multistep_calls taking the gains of the last step
multistep_calls_last(p_0, K, k, q_0) ==
    << [t |-> Len(K) - 1, p_center |-> p_0, K |-> K[Len(K)], k |-> np_column(k[Len(k)]),
        q_shape |-> first_step_shape(q_0)] >>

\* the one-step calls the driver makes: t is the (0-based) index into K and k
multistep_calls(p_0, K, k, q_0) ==
    << [t |-> 0, p_center |-> p_0, K |-> K[1], k |-> np_column(k[1]),
        q_shape |-> first_step_shape(q_0)] >>

\* the one-step call c of the driver
multistep_step(c, gp, L_mu, L_sigm, c_safety, verbose) ==
    onestep_reachability(c.p_center, gp, c.K, c.k, L_mu, L_sigm,
                         c.q_shape, c_safety, verbose).out

\* how the driver ends after its one-step call: the error of that call
\* propagates, and otherwise the driver raises NotImplementedError
multistep_outcome(n, calls, step) ==
    [status |-> "raised",
     error |-> IF step.status = "raised" THEN step.error ELSE "NotImplementedError",
     n |-> n, calls |-> calls, steps |-> <<step>>, p |-> None, Q |-> None]

\* multistep_reachability(p_0, gp, K, k, L_mu, L_sigm, q_0, c_safety, verbose):
\* K is a sequence of n gain matrices, k a sequence of n offsets
multistep_reachability(p_0, gp, K, k, L_mu, L_sigm, q_0, c_safety, verbose) ==
    multistep_outcome(Len(K), multistep_calls(p_0, K, k, q_0),
                      multistep_step(multistep_calls(p_0, K, k, q_0)[1],
                                     gp, L_mu, L_sigm, c_safety, verbose))

(***************************************************************************)
(* Inputs.                                                                 *)
(***************************************************************************)
\* the state and action dimensions of the models
N_S == gp_n_s(GP_act)

N_U == gp_n_in(GP_act) - N_S

\* n x 1 columns and r x c matrices with entries in 0..hi
Columns(n, hi) == {Arr2([i \in 1..n |-> <<v[i]>>]) : v \in [1..n -> 0..hi]}

Matrices(r, c, hi) == {Arr2(m) : m \in [1..r -> [1..c -> 0..hi]]}

ZeroShape == Arr2([i \in 1..N_S |-> [j \in 1..N_S |-> 0]])

UnitShape == Arr2([i \in 1..N_S |-> [j \in 1..N_S |-> IF i = j THEN 1 ELSE 0]])

\* a symmetric positive-definite shape that is not diagonal
FullShape == Arr2([i \in 1..N_S |-> [j \in 1..N_S |-> IF i = j THEN 2 ELSE 1]])

QShapes == {None, ZeroShape, UnitShape, FullShape}

ZeroVector == Arr1([i \in 1..N_S |-> 0])

\* Lipschitz vectors <<L_mu, L_sigm>>: all zero, or growing with the dimension
Lipschitz ==
    {<<ZeroVector, ZeroVector>>,
     <<Arr1([i \in 1..N_S |-> i]), Arr1([i \in 1..N_S |-> N_S + 1 - i])>>}

WellFormedArgs ==
    {[p_center |-> p, gp |-> gp, K |-> K, k |-> k, L_mu |-> L[1], L_sigm |-> L[2],
      q_shape |-> q, c_safety |-> c, verbose |-> v] :
        p \in Columns(N_S, MaxVal), gp \in GPs, K \in Matrices(N_U, N_S, MaxGain),
        k \in Columns(N_U, MaxVal), L \in Lipschitz, q \in QShapes,
        c \in 1..MaxC, v \in 0..1}

ShapeDefects ==
    {"p_center 1-d", "K extra column", "K extra row", "k extra row",
     "L_mu short", "L_mu long", "L_sigm short", "L_sigm long"}

\* the arguments a with one of them malformed
Defect(a, d) ==
    CASE d = "p_center 1-d" -> [a EXCEPT !.p_center = np_squeeze(np_T(@))]
      [] d = "K extra column" ->
            [a EXCEPT !.K = Arr2([i \in 1..Rows(@) |-> Append(@.m[i], 1)])]
      [] d = "K extra row" -> [a EXCEPT !.K = Arr2(Append(@.m, @.m[1]))]
      [] d = "k extra row" -> [a EXCEPT !.k = Arr2(Append(@.m, @.m[1]))]
      [] d = "L_mu short" -> [a EXCEPT !.L_mu = Arr1(Tail(@.m[1]))]
      [] d = "L_mu long" -> [a EXCEPT !.L_mu = Arr1(Append(@.m[1], 1))]
      [] d = "L_sigm short" -> [a EXCEPT !.L_sigm = Arr1(Tail(@.m[1]))]
      [] d = "L_sigm long" -> [a EXCEPT !.L_sigm = Arr1(Append(@.m[1], 1))]
      [] OTHER -> a

NoArgs == [tag |-> "no call"]

Pending == [tag |-> "pending"]

NoPrev == [tag |-> "no previous call"]

\* the environment in which every print_ellipsoid call formats
NoFault == [failText |-> "", scenario |-> "none"]

(***************************************************************************)
(* Spec: calls of onestep_reachability with well-formed arguments.  A      *)
(* completed call may be repeated once with one argument changed.          *)
(***************************************************************************)
Init ==
    /\ args \in WellFormedArgs
    /\ env = NoFault
    /\ res = Pending
    /\ prev = NoPrev
    /\ margs = NoArgs
    /\ mres = Pending

\* res := onestep_reachability(args)
Call ==
    /\ res = Pending
    /\ res' = [tag |-> "done"] @@
              onestep_reachability(args.p_center, args.gp, args.K, args.k, args.L_mu,
                                   args.L_sigm, args.q_shape, args.c_safety, args.verbose)
    /\ UNCHANGED <<args, env, prev, margs, mres>>

Again(a) ==
    /\ res # Pending
    /\ prev = NoPrev
    /\ prev' = [tag |-> "previous call", args |-> args, res |-> res]
    /\ args' = a
    /\ res' = Pending
    /\ UNCHANGED <<env, margs, mres>>

\* the same call at the other verbosity level
AgainVerbose == Again([args EXCEPT !.verbose = 1 - @])

\* the same call with another safety scaling
AgainCSafety == \E c \in 1..MaxC : c # args.c_safety /\ Again([args EXCEPT !.c_safety = c])

\* the call of a point repeated with the degenerate (zero) ellipsoid
AgainZeroShape == args.q_shape = None /\ Again([args EXCEPT !.q_shape = ZeroShape])

Next == Call \/ AgainVerbose \/ AgainCSafety \/ AgainZeroShape

Spec == Init /\ [][Next]_vars

(***************************************************************************)
(* SpecFault: calls of onestep_reachability in which one argument is       *)
(* malformed, or in which one print_ellipsoid text fails to format.        *)
(***************************************************************************)
InitFault ==
    /\ \E a \in WellFormedArgs, d \in ShapeDefects \cup PrintTexts :
          /\ args = Defect(a, d)
          /\ env = [failText |-> IF d \in PrintTexts THEN d ELSE "", scenario |-> d]
    /\ res = Pending
    /\ prev = NoPrev
    /\ margs = NoArgs
    /\ mres = Pending

NextFault == Call

SpecFault == InitFault /\ [][NextFault]_vars

(***************************************************************************)
(* SpecMulti: calls of multistep_reachability over horizons 1..MaxHorizon. *)
(***************************************************************************)
\* the gains of a step: no feedback, or feedback on the first state
MultiGains ==
    {Arr2([i \in 1..N_U |-> [j \in 1..N_S |-> 0]]),
     Arr2([i \in 1..N_U |-> [j \in 1..N_S |-> IF j = 1 THEN 1 ELSE 0]])}

\* the offsets of a step
MultiOffsets == {Arr1([i \in 1..N_U |-> 0]), Arr1([i \in 1..N_U |-> 1])}

\* the arguments of a call over the horizon n
MultiArgs(n) ==
    {[p_0 |-> p, gp |-> GP_act, K |-> K, k |-> k, L_mu |-> Arr1([i \in 1..N_S |-> i]),
      L_sigm |-> ZeroVector, q_0 |-> q, c_safety |-> c, verbose |-> v] :
        p \in Columns(N_S, MaxVal), K \in [1..n -> MultiGains],
        k \in [1..n -> MultiOffsets], q \in {None, FullShape},
        c \in 1..MaxC, v \in 0..1}

InitMulti ==
    /\ \E n \in 1..MaxHorizon : margs \in MultiArgs(n)
    /\ env \in {NoFault, [failText |-> "uncertainty first state",
                          scenario |-> "uncertainty first state"]}
    /\ mres = Pending
    /\ args = NoArgs
    /\ res = Pending
    /\ prev = NoPrev

\* mres := multistep_reachability(margs)
MultiCall ==
    /\ mres = Pending
    /\ mres' = [tag |-> "done"] @@
               multistep_reachability(margs.p_0, margs.gp, margs.K, margs.k, margs.L_mu,
                                      margs.L_sigm, margs.q_0, margs.c_safety, margs.verbose)
    /\ UNCHANGED <<args, env, res, prev, margs>>

NextMulti == MultiCall

SpecMulti == InitMulti /\ [][NextMulti]_vars

(***************************************************************************)
(* Properties.                                                             *)
(***************************************************************************)
\* the entries of p_center, and the query row <<p_center; u>> for an action u
CenterOf(a) == [i \in 1..N_S |-> a.p_center.m[i][1]]

QueryRow(a, u) ==
    Arr2(<<[i \in 1..(N_S + N_U) |-> IF i <= N_S THEN CenterOf(a)[i] ELSE u[i - N_S]]>>)

\* K p_center + k, entry by entry
ClosedLoopAction(a) ==
    [i \in 1..N_U |->
        SumTo([j \in 1..N_S |-> a.K.m[i][j] * CenterOf(a)[j]], N_S) + a.k.m[i][1]]

OffsetAction(a) == [i \in 1..N_U |-> a.k.m[i][1]]

\* the completed call and the one before it differ in the argument f only
PairOn(f) ==
    /\ res # Pending
    /\ prev # NoPrev
    /\ \A g \in DOMAIN args : g # f => args[g] = prev.args[g]
    /\ args[f] # prev.args[f]

BothReturned == res.out.status = "returned" /\ prev.res.out.status = "returned"

\* C1: multistep_reachability over a horizon n >= 1 makes one one-step call
\* per t = 0..n-1, in order, with K[t], k[t], each call from t = 1 on starting
\* from the ellipsoid the call before it returned, and returns to the caller.
C1_ChainsEveryStep ==
    (mres # Pending /\ env = NoFault) =>
        /\ Len(mres.calls) = mres.n
        /\ \A t \in 1..Len(mres.calls) :
              /\ mres.calls[t].t = t - 1
              /\ mres.calls[t].K = margs.K[t]
              /\ mres.calls[t].k = np_column(margs.k[t])
              /\ t > 1 => /\ mres.calls[t].p_center = mres.steps[t - 1].p
                          /\ mres.calls[t].q_shape = mres.steps[t - 1].Q
        /\ mres.status = "returned"

\* C2: the first one-step call of multistep_reachability starts from
\* (p_0, q_0): it receives q_shape = q_0, and runs the point case only when
\* q_0 is null.
C2_StartsFromQ0 ==
    mres # Pending =>
        /\ mres.calls[1].p_center = margs.p_0
        /\ mres.calls[1].q_shape = margs.q_0

C4_PointCase ==
    (res # Pending /\ args.q_shape = None) =>
        LET z == QueryRow(args, ClosedLoopAction(args))
            pred == gp_predict(args.gp, z)
        IN  /\ res.out.status = "returned"
            /\ res.out.log.predict = <<z>>
            /\ res.out.log.gradients = <<>>
            /\ np_shape(res.out.p) = <<N_S, 1>>
            /\ np_shape(res.out.Q) = <<N_S, N_S>>
            /\ \A i \in 1..N_S :
                  /\ res.out.p.m[i][1] = CenterOf(args)[i] + pred[1].m[1][i]
                  /\ \A j \in 1..N_S :
                        res.out.Q.m[i][j] =
                            IF i = j THEN args.c_safety * pred[2].m[1][i] ELSE 0

C4_Witness ==
    /\ res # Pending
    /\ args.q_shape = None
    /\ res.out.status = "returned"
    /\ args.gp = GP_act
    /\ args.c_safety > 1
    /\ args.L_mu # ZeroVector
    /\ \E i \in 1..N_U : ClosedLoopAction(args)[i] > OffsetAction(args)[i]

\* C5: with verbose = 0 no diagnostic print is performed in either branch, and
\* calls that differ in verbose only end the same way with the same (p, Q).
C5_VerboseControlsPrinting ==
    /\ (res # Pending /\ args.verbose = 0) => res.out.log.prints = <<>>
    /\ PairOn("verbose") =>
          /\ res.out.status = prev.res.out.status
          /\ res.out.p = prev.res.out.p
          /\ res.out.Q = prev.res.out.Q

\* C6: a print_ellipsoid call that fails never aborts the call: with
\* well-formed arguments onestep_reachability still returns its (p, Q).
C6_PrintFailureHarmless ==
    (res # Pending /\ env.scenario \in PrintTexts) => res.out.status = "returned"

\* C7: a call with a malformed argument (K, k or p_center of another shape, a
\* Lipschitz vector of another length than n_s) ends in an error in both
\* branches; it never returns a (p, Q).
C7_ShapeMismatchRaises ==
    (res # Pending /\ env.scenario \in ShapeDefects) => res.out.status = "raised"

\* C8: of two calls that differ in c_safety only, the one with the larger
\* c_safety returns a shape none of whose diagonal entries is smaller.
C8_Monotone ==
    (PairOn("c_safety") /\ BothReturned) =>
        LET lo == IF args.c_safety < prev.args.c_safety THEN res.out.Q ELSE prev.res.out.Q
            hi == IF args.c_safety < prev.args.c_safety THEN prev.res.out.Q ELSE res.out.Q
        IN  \A i \in 1..N_S : hi.m[i][i] >= lo.m[i][i]

C8_Witness ==
    /\ PairOn("c_safety") /\ BothReturned
    /\ args.q_shape = FullShape
    /\ args.L_sigm # ZeroVector
    /\ args.c_safety > prev.args.c_safety
    /\ \A i \in 1..N_S : res.out.Q.m[i][i] > prev.res.out.Q.m[i][i]

\* C9: the call of a point (q_shape null) and the same call with the zero
\* shape matrix build their shapes from the predictive variance of the same
\* model query: with zero Lipschitz constants the variance shape of the set
\* case is the shape diag(c_safety * variance) of the point case.
C9_PointCaseReduction ==
    (PairOn("q_shape") /\ prev.args.q_shape = None /\ args.q_shape = ZeroShape
        /\ BothReturned) =>
        /\ res.out.log.predict = prev.res.out.log.predict
        /\ res.aux.sigm = prev.res.aux.sigm
        /\ args.L_sigm = ZeroVector => res.aux.Q_sigm = prev.res.out.Q

====
